---- MODULE Spec2Model ----
(***************************************************************************)
(* Model of the two merge-conflict resolvers of tools/worktree:            *)
(*   resolve_cargo_conflict.py  (manifest `members = [...]` lists)         *)
(*   resolve_librs_conflict.py  (`pub mod x;` declaration lines)           *)
(*                                                                         *)
(* A document is a sequence of lexemes.  Every literal that one of the     *)
(* regular expressions or string tests of the source looks for begins and  *)
(* ends on a lexeme boundary, so a match of the source's pattern on the    *)
(* text is a match of the modelled pattern on the lexeme sequence:         *)
(*   "NL"     the newline character                                        *)
(*   "START"  `<<<<<<< HEAD`      "SEP"  `=======`     "END" `>>>>>>> b`   *)
(*   "MOPEN"  `members = [`       "CLOSE" `]`          "WSHDR" `[workspace]`*)
(*   "Qa" "Qb" "Qc"  the quoted strings "a" "b" "c" (with the blanks and   *)
(*            the comma around them, which no pattern reads)               *)
(*   "PMa" `pub mod a;`  "PMb" `pub mod b;`  "PCa" `pub(crate) mod a;`     *)
(*   "USE" `use u;`   "CMT" `// c`   "SP" a run of blanks                  *)
(*   "K" "X" "Y"  three different pieces of other text without newline     *)
(***************************************************************************)
EXTENDS Integers, Sequences, FiniteSets, TLC

VARIABLES
    tool,     \* which entry point is run on the target path
    env,      \* [exists]: whether the target path exists
    file,     \* the content of the target path
    before,   \* the content the latest run read
    runs,     \* the number of runs made
    exit,     \* the exit code of the latest run, -1 before the first
    raised,   \* whether the latest run ended in main's `except Exception`
    writes,   \* the number of path.write_text calls of the latest run
    twin,     \* the content of a copy of the input, for a second process
    twinRan   \* whether the second process has run

vars == <<tool, env, file, before, runs, exit, raised, writes, twin, twinRan>>

\* ------------------------------------------------------------------ bounds

\* The number of segments a generated input document is made of.
MaxSegs == 3

\* How many times in sequence the resolver is run on the target file.
MaxRuns == 2

\* ----------------------------------------------------------------- lexemes

Quoted == {"Qa", "Qb", "Qc"}

PubMods == {"PMa", "PMb", "PCa"}

\* The lexemes that contain the character `]`, as their last character.
HasClose == {"CLOSE", "WSHDR"}

Sub(s, a, b) == IF a > b THEN << >> ELSE SubSeq(s, a, b)

Range(s) == {s[i] : i \in 1..Len(s)}

RECURSIVE FirstIdx(_, _, _)
\* The first index >= i of s holding a lexeme of S; 0 when there is none.
FirstIdx(s, i, S) ==
    IF i > Len(s) THEN 0
    ELSE IF s[i] \in S THEN i
    ELSE FirstIdx(s, i + 1, S)

RECURSIVE FirstSepNl(_, _)
\* The first index >= i where the text `=======\n` begins; 0 when none.
FirstSepNl(s, i) ==
    IF i >= Len(s) THEN 0
    ELSE IF s[i] = "SEP" /\ s[i + 1] = "NL" THEN i
    ELSE FirstSepNl(s, i + 1)

\* `>>>>>>>[^\n]*\n?` matched from the end marker at e: the index of the last
\* lexeme the match consumes.
EndTail(s, e) ==
    LET n == FirstIdx(s, e + 1, {"NL"})
    IN  IF n = 0 THEN Len(s) ELSE n

\* `<<<<<<<[^\n]*\n` matched from the start marker at i: the index after the
\* newline, 0 when no newline follows.
AfterStartLine(s, i) ==
    LET n == FirstIdx(s, i + 1, {"NL"})
    IN  IF n = 0 THEN 0 ELSE n + 1

\* "<<<<<<< " in content
has_conflict_markers(content) == \E i \in 1..Len(content) : content[i] = "START"

\* --------------------------------------------- resolve_cargo_conflict.py

\* The quoted strings of one list body: re.finditer(r'"([^"]+)"', content).
quoted_strings(content) == {content[i] : i \in {j \in 1..Len(content) : content[j] \in Quoted}}

\* extract_members_from_block: re.search takes the FIRST `members = [ ... ]`
\* of the block only; the lazy body ends at the first `]`.
extract_members_from_block(block) ==
    LET m == FirstIdx(block, 1, {"MOPEN"})
        c == IF m = 0 THEN 0 ELSE FirstIdx(block, m + 1, HasClose)
    IN  IF c = 0 THEN {} ELSE quoted_strings(Sub(block, m + 1, c - 1))

\* One attempt of conflict_pattern at the start marker at index i:
\*   <<<<<<<[^\n]*\n(.*?)(?:=======\n(.*?))?>>>>>>>[^\n]*\n?
\* The lazy group 1 grows until `=======\n` with an end marker after it, or an
\* end marker, begins at its end.  [ok, last, ours, theirs].
RECURSIVE ConflictBody(_, _, _)
ConflictBody(s, a, p) ==
    IF p > Len(s) THEN [ok |-> FALSE, last |-> 0, ours |-> << >>, theirs |-> << >>]
    ELSE IF s[p] = "SEP" /\ p < Len(s) /\ s[p + 1] = "NL" /\ FirstIdx(s, p + 2, {"END"}) # 0
    THEN LET q == FirstIdx(s, p + 2, {"END"})
         IN  [ok |-> TRUE, last |-> EndTail(s, q),
              ours |-> Sub(s, a, p - 1), theirs |-> Sub(s, p + 2, q - 1)]
    ELSE IF s[p] = "END"
    THEN [ok |-> TRUE, last |-> EndTail(s, p), ours |-> Sub(s, a, p - 1), theirs |-> << >>]
    ELSE ConflictBody(s, a, p + 1)

conflict_pattern(s, i) ==
    LET a == AfterStartLine(s, i)
    IN  IF s[i] # "START" \/ a = 0
        THEN [ok |-> FALSE, last |-> 0, ours |-> << >>, theirs |-> << >>]
        ELSE ConflictBody(s, a, a)

RECURSIVE conflict_members(_, _)
\* Lines 71-76: the members of both sides of every match of conflict_pattern,
\* scanning from index i.
conflict_members(s, i) ==
    IF i > Len(s) THEN {}
    ELSE LET m == conflict_pattern(s, i)
         IN  IF m.ok
             THEN extract_members_from_block(m.ours)
                    \cup extract_members_from_block(m.theirs)
                    \cup conflict_members(s, m.last + 1)
             ELSE conflict_members(s, i + 1)

RECURSIVE clean_content(_, _)
\* Line 80: re.sub(conflict_pattern, "", content), scanning from index i.
clean_content(s, i) ==
    IF i > Len(s) THEN << >>
    ELSE LET m == conflict_pattern(s, i)
         IN  IF m.ok THEN clean_content(s, m.last + 1)
             ELSE <<s[i]>> \o clean_content(s, i + 1)

\* Lines 65-81.
all_members(content) ==
    conflict_members(content, 1) \cup extract_members_from_block(clean_content(content, 1))

\* The order of str on the member names: "a" < "b" < "c".
Rank(q) == CASE q = "Qa" -> 1 [] q = "Qb" -> 2 [] q = "Qc" -> 3 [] OTHER -> 4

RECURSIVE sorted_members(_)
\* Line 88: sorted(all_members), a set of distinct strings.
sorted_members(S) ==
    IF S = {} THEN << >>
    ELSE LET lo == CHOOSE x \in S : \A y \in S : Rank(x) <= Rank(y)
         IN  <<lo>> \o sorted_members(S \ {lo})

RECURSIVE member_lines(_)
\* Line 92: each member on a line of its own, `    "m",`.
member_lines(ms) ==
    IF ms = << >> THEN << >>
    ELSE <<"NL", Head(ms)>> \o member_lines(Tail(ms))

\* Lines 91-95: `members = [\n    "a",\n    "b",\n]`, or `members = []`.
new_members_block(ms) ==
    IF ms # << >> THEN <<"MOPEN">> \o member_lines(ms) \o <<"NL", "CLOSE">>
    ELSE <<"MOPEN", "CLOSE">>

\* `(?:.*?members\s*=\s*\[.*?\].*?)?>>>>>>>` matched at index b, right after
\* `=======\n`: the index of the end marker, 0 when there is no match.  The
\* group is tried first: the first list opening at or after b, the first `]`
\* after it, the first end marker after that; skipped, the end marker is at b.
members_side_end(s, b) ==
    LET m == FirstIdx(s, b, {"MOPEN"})
        c == IF m = 0 THEN 0 ELSE FirstIdx(s, m + 1, HasClose)
        e == IF c = 0 THEN 0 ELSE FirstIdx(s, c + 1, {"END"})
    IN  IF e # 0 THEN e
        ELSE IF b <= Len(s) /\ s[b] = "END" THEN b
        ELSE 0

RECURSIVE members_sep_from(_, _)
\* The first `=======\n` at or after index p after which the rest of
\* members_conflict_pattern matches; 0 when there is none.
members_sep_from(s, p) ==
    LET q == FirstSepNl(s, p)
    IN  IF q = 0 THEN 0
        ELSE IF members_side_end(s, q + 2) # 0 THEN q
        ELSE members_sep_from(s, q + 1)

\* One attempt of members_conflict_pattern (lines 103-109) at index i:
\*   <<<<<<<[^\n]*\n(?:.*?members\s*=\s*\[.*?\].*?)?=======\n
\*   (?:.*?members\s*=\s*\[.*?\].*?)?>>>>>>>[^\n]*\n?
\* The index of the last lexeme of the match, 0 when there is no match.
members_conflict_pattern(s, i) ==
    LET a  == AfterStartLine(s, i)
        m  == IF a = 0 THEN 0 ELSE FirstIdx(s, a, {"MOPEN"})
        c  == IF m = 0 THEN 0 ELSE FirstIdx(s, m + 1, HasClose)
        p1 == IF c = 0 THEN 0 ELSE members_sep_from(s, c + 1)
        p  == IF p1 # 0 THEN p1
              ELSE IF a # 0 /\ a < Len(s) /\ s[a] = "SEP" /\ s[a + 1] = "NL"
                      /\ members_side_end(s, a + 2) # 0
              THEN a
              ELSE 0
    IN  IF s[i] # "START" \/ p = 0 THEN 0
        ELSE EndTail(s, members_side_end(s, p + 2))

RECURSIVE replace_members_conflict(_, _)
\* Line 115: re.sub(members_conflict_pattern, "", resolved).
replace_members_conflict(s, i) ==
    IF i > Len(s) THEN << >>
    ELSE LET last == members_conflict_pattern(s, i)
         IN  IF last # 0 THEN replace_members_conflict(s, last + 1)
             ELSE <<s[i]>> \o replace_members_conflict(s, i + 1)

\* One attempt of the pattern of line 124 at index i:
\*   <<<<<<<[^\n]*\n(.*?)=======\n.*?>>>>>>>[^\n]*\n?
\* [ok, last, ours].
generic_pattern(s, i) ==
    LET a == AfterStartLine(s, i)
        p == IF a = 0 THEN 0 ELSE FirstSepNl(s, a)
        q == IF p = 0 THEN 0 ELSE FirstIdx(s, p + 2, {"END"})
    IN  IF s[i] # "START" \/ q = 0
        THEN [ok |-> FALSE, last |-> 0, ours |-> << >>]
        ELSE [ok |-> TRUE, last |-> EndTail(s, q), ours |-> Sub(s, a, p - 1)]

RECURSIVE resolve_generic_conflict(_, _)
\* Lines 119-128: every match is replaced by its group 1, the "ours" text.
resolve_generic_conflict(s, i) ==
    IF i > Len(s) THEN << >>
    ELSE LET m == generic_pattern(s, i)
         IN  IF m.ok THEN m.ours \o resolve_generic_conflict(s, m.last + 1)
             ELSE <<s[i]>> \o resolve_generic_conflict(s, i + 1)

RECURSIVE replace_members_block(_, _, _)
\* Lines 132-137: re.sub(r'members\s*=\s*\[.*?\]', new_members_block, resolved):
\* every list literal, from its opening to the first `]` after it.
replace_members_block(s, i, block) ==
    IF i > Len(s) THEN << >>
    ELSE LET c == IF s[i] = "MOPEN" THEN FirstIdx(s, i + 1, HasClose) ELSE 0
         IN  IF c # 0 THEN block \o replace_members_block(s, c + 1, block)
             ELSE <<s[i]>> \o replace_members_block(s, i + 1, block)

RECURSIVE add_after_workspace(_, _)
\* Lines 140-144: re.sub(r'(\[workspace\])', '\1\n' + new_members_block, resolved).
add_after_workspace(s, block) ==
    IF s = << >> THEN << >>
    ELSE IF Head(s) = "WSHDR"
    THEN <<"WSHDR", "NL">> \o block \o add_after_workspace(Tail(s), block)
    ELSE <<Head(s)>> \o add_after_workspace(Tail(s), block)

\* Lines 130-144.
place_members(s, ms) ==
    IF "MOPEN" \in Range(s) THEN replace_members_block(s, 1, new_members_block(ms))
    ELSE IF "WSHDR" \in Range(s) /\ ms # << >> THEN add_after_workspace(s, new_members_block(ms))
    ELSE s

RECURSIVE collapse_blank_lines(_, _)
\* re.sub(r'\n{3,}', '\n\n', resolved): n is the number of newlines of the
\* run that ends before s.
collapse_blank_lines(s, n) ==
    IF s = << >> THEN << >>
    ELSE IF Head(s) = "NL"
    THEN IF n >= 2 THEN collapse_blank_lines(Tail(s), n + 1)
         ELSE <<"NL">> \o collapse_blank_lines(Tail(s), n + 1)
    ELSE <<Head(s)>> \o collapse_blank_lines(Tail(s), 0)

RECURSIVE repeat(_, _)
repeat(x, n) == IF n = 0 THEN << >> ELSE <<x>> \o repeat(x, n - 1)

RECURSIVE conflict_member_list(_, _)
\* conflict_members with all_members a list: the members of every side, one
\* after the other.
conflict_member_list(s, i) ==
    IF i > Len(s) THEN << >>
    ELSE LET m == conflict_pattern(s, i)
         IN  IF m.ok
             THEN sorted_members(extract_members_from_block(m.ours))
                    \o sorted_members(extract_members_from_block(m.theirs))
                    \o conflict_member_list(s, m.last + 1)
             ELSE conflict_member_list(s, i + 1)

\* sorted() of a list of member names: repeated names stay.
sorted_member_list(l) ==
    LET times(q) == Cardinality({k \in 1..Len(l) : l[k] = q})
    IN  repeat("Qa", times("Qa")) \o repeat("Qb", times("Qb")) \o repeat("Qc", times("Qc"))

\* resolve_cargo_conflict with all_members a list instead of a set: nothing
\* removes a member that was extracted more than once.
cargo_resolved_list(content) ==
    LET ms == sorted_member_list(
                  conflict_member_list(content, 1)
                    \o sorted_members(extract_members_from_block(clean_content(content, 1))))
        r1 == replace_members_conflict(content, 1)
        r2 == resolve_generic_conflict(r1, 1)
        r3 == place_members(r2, ms)
    IN  collapse_blank_lines(r3, 0)

\* Lines 64-147 of resolve_cargo_conflict: the text that is written back.
cargo_resolved(content) ==
    LET ms == sorted_members(all_members(content))
        r1 == replace_members_conflict(content, 1)
        r2 == resolve_generic_conflict(r1, 1)
        r3 == place_members(r2, ms)
    IN  collapse_blank_lines(r3, 0)

\* --------------------------------------------- resolve_librs_conflict.py

RECURSIVE split_lines(_, _)
\* content.split('\n'): cur is the line being read.
split_lines(s, cur) ==
    IF s = << >> THEN <<cur>>
    ELSE IF Head(s) = "NL" THEN <<cur>> \o split_lines(Tail(s), << >>)
    ELSE split_lines(Tail(s), Append(cur, Head(s)))

RECURSIVE join_lines(_)
\* '\n'.join(resolved_lines)
join_lines(ls) ==
    IF ls = << >> THEN << >>
    ELSE IF Len(ls) = 1 THEN ls[1]
    ELSE ls[1] \o <<"NL">> \o join_lines(Tail(ls))

RECURSIVE lstrip(_)
lstrip(line) == IF line # << >> /\ Head(line) = "SP" THEN lstrip(Tail(line)) ELSE line

RECURSIVE rstrip(_)
rstrip(line) ==
    IF line # << >> /\ line[Len(line)] = "SP" THEN rstrip(Sub(line, 1, Len(line) - 1))
    ELSE line

\* line.strip()
strip(line) == rstrip(lstrip(line))

\* re.match(r'^pub(?:\([^)]+\))?\s+mod\s+\w+\s*;', text): the text begins with
\* a declaration; what follows it on the line is not looked at.
starts_with_pub_mod(text) == text # << >> /\ text[1] \in PubMods

\* extract_pub_mods without line.strip(): an indented declaration is missed.
extract_pub_mods_unstripped(block) ==
    {<<block[i][1]>> : i \in {j \in 1..Len(block) : starts_with_pub_mod(block[j])}}

\* extract_pub_mods: of every line of the block that, stripped, begins with a
\* declaration, group 1: the declaration alone.
extract_pub_mods(block) ==
    {<<strip(block[i])[1]>> : i \in {j \in 1..Len(block) : starts_with_pub_mod(strip(block[j]))}}

\* extract_mod_name, as the rank of the name in the order of str: the
\* identifier after the first `mod`.
extract_mod_name(declaration) ==
    CASE declaration[1] \in {"PMa", "PCa"} -> 1
      [] declaration[1] = "PMb" -> 2
      [] OTHER -> 3

\* Lines 69-75: the state of the scan before the first line.
scan_init ==
    [resolved_lines |-> << >>, all_pub_mods |-> {}, in_conflict |-> FALSE,
     conflict_section |-> << >>, pub_mods_insertion_point |-> -1]

\* Lines 79-123: one turn of the loop, on one line; -1 is None.
scan_line(st, line) ==
    IF line # << >> /\ line[1] = "START"
    THEN [st EXCEPT !.in_conflict = TRUE, !.conflict_section = << >>]
    ELSE IF line # << >> /\ line[1] = "SEP"
    THEN [st EXCEPT !.all_pub_mods = @ \cup extract_pub_mods(st.conflict_section),
                    !.conflict_section = << >>]
    ELSE IF line # << >> /\ line[1] = "END"
    THEN [st EXCEPT !.all_pub_mods = @ \cup extract_pub_mods(st.conflict_section),
                    !.in_conflict = FALSE,
                    !.conflict_section = << >>,
                    !.pub_mods_insertion_point =
                        IF @ = -1 THEN Len(st.resolved_lines) ELSE @]
    ELSE IF st.in_conflict
    THEN [st EXCEPT !.conflict_section = Append(@, line)]
    ELSE IF starts_with_pub_mod(strip(line))
    THEN [st EXCEPT !.all_pub_mods = @ \cup {strip(line)},
                    !.pub_mods_insertion_point =
                        IF @ = -1 THEN Len(st.resolved_lines) ELSE @]
    ELSE [st EXCEPT !.resolved_lines = Append(@, line)]

RECURSIVE scan(_, _)
\* Lines 77-123: the loop over the lines.
scan(st, lines) ==
    IF lines = << >> THEN st ELSE scan(scan_line(st, Head(lines)), Tail(lines))

RECURSIVE Perms(_)
\* Every order in which a set can be iterated.
Perms(S) ==
    IF S = {} THEN {<< >>}
    ELSE UNION {{<<x>> \o p : p \in Perms(S \ {x})} : x \in S}

\* Line 126 without the sort: the declarations in the iteration order of the
\* set.
sorted_mods_unsorted(S) == Perms(S)

\* Line 126: sorted(all_pub_mods, key=extract_mod_name).  sorted is stable
\* and a set of str has no fixed iteration order (str hashes are salted per
\* process), so declarations of one name come out in any order.
sorted_mods(S) ==
    {p \in Perms(S) :
        \A i \in 1..(Len(p) - 1) : extract_mod_name(p[i]) <= extract_mod_name(p[i + 1])}

RECURSIVE use_insert_at(_, _, _)
\* Lines 138-143: after the last leading `use` line; blank lines and lines
\* beginning with `//` are passed over, any other line ends the search.
use_insert_at(ls, idx, at) ==
    IF idx > Len(ls) THEN at
    ELSE LET t == strip(ls[idx])
         IN  IF t # << >> /\ t[1] = "USE" THEN use_insert_at(ls, idx + 1, idx)
             ELSE IF t # << >> /\ t[1] # "CMT" THEN at
             ELSE use_insert_at(ls, idx + 1, at)

\* Lines 129-146 with the declarations appended after the last kept line.
insert_mods_at_end(st, mods) == st.resolved_lines \o mods

\* Lines 129-146: resolved_lines with the sorted declarations inserted.
insert_mods(st, mods) ==
    LET ls == st.resolved_lines
        at == IF mods = << >> THEN 0
              ELSE IF st.pub_mods_insertion_point # -1 THEN st.pub_mods_insertion_point
              ELSE use_insert_at(ls, 1, 0)
    IN  Sub(ls, 1, at) \o mods \o Sub(ls, at + 1, Len(ls))

\* Lines 155-156.
ensure_newline(s) == IF s # << >> /\ s[Len(s)] = "NL" THEN s ELSE Append(s, "NL")

\* Lines 69-123 of resolve_librs_conflict.
librs_scan(content) == scan(scan_init, split_lines(content, << >>))

\* Lines 128-156: the text that is written back, for one order of the
\* declarations.
librs_resolved(content, mods) ==
    ensure_newline(collapse_blank_lines(join_lines(insert_mods(librs_scan(content), mods)), 0))

\* ------------------------------------------------------- input documents

\* The pieces a conflicted Cargo.toml is put together from.
CargoSegs ==
    { <<"K", "NL">>,
      <<"NL">>,
      <<"WSHDR", "NL">>,
      <<"MOPEN", "Qb", "CLOSE", "NL">>,
      <<"START", "NL", "MOPEN", "Qc", "Qa", "CLOSE", "NL", "SEP", "NL",
        "MOPEN", "Qb", "Qa", "CLOSE", "NL", "END", "NL">>,
      <<"START", "NL", "X", "NL", "SEP", "NL", "Y", "NL", "END", "NL">>,
      <<"START", "NL", "X", "NL", "END", "NL">>,
      <<"START", "NL", "MOPEN", "Qa", "CLOSE", "NL", "SEP", "NL", "Y", "NL", "END", "NL">>,
      <<"START", "NL", "X", "NL", "SEP", "NL", "MOPEN", "Qc", "CLOSE", "NL", "END", "NL">>,
      <<"MOPEN", "NL">>,
      <<"K">>,
      <<"MOPEN", "Qc", "CLOSE", "NL">>,
      <<"START", "NL", "MOPEN", "CLOSE", "NL", "SEP", "NL", "MOPEN", "CLOSE", "NL", "END", "NL">>,
      <<"NL", "NL", "NL">> }

\* The pieces a conflicted lib.rs is put together from.
LibrsSegs ==
    { <<"K", "NL">>,
      <<"NL">>,
      <<"USE", "NL">>,
      <<"PMb", "NL">>,
      <<"SP", "PCa", "NL">>,
      <<"START", "NL", "PMb", "NL", "SEP", "NL", "PMa", "NL", "PMb", "NL", "END", "NL">>,
      <<"START", "NL", "X", "NL", "SEP", "NL", "Y", "NL", "END", "NL">>,
      <<"START", "NL", "SP", "PMa", "NL", "END", "NL">>,
      <<"SEP", "NL">>,
      <<"PMa", "CMT", "NL">>,
      <<"START", "NL">>,
      <<"K">>,
      <<"NL", "NL", "NL">> }

RECURSIVE Docs(_, _)
\* The documents made of at most n segments.
Docs(segs, n) ==
    IF n = 0 THEN {<< >>}
    ELSE LET shorter == Docs(segs, n - 1)
         IN  shorter \cup {d \o g : d \in shorter, g \in segs}

Tools == {"cargo", "librs"}

Inputs(t) == IF t = "cargo" THEN Docs(CargoSegs, MaxSegs) ELSE Docs(LibrsSegs, MaxSegs)

\* ------------------------------------------------------------ the program

\* The state after the file was put in place and before the first run: exists
\* is path.exists(); a missing file has no content.  twin is a second copy of
\* the same input, for a second process.
Init ==
    /\ tool \in Tools
    /\ \E present \in BOOLEAN :
         /\ env = [exists |-> present]
         /\ file \in (IF present THEN Inputs(tool) ELSE {<< >>})
    /\ before = file
    /\ twin = file
    /\ runs = 0
    /\ exit = -1
    /\ raised = FALSE
    /\ writes = 0
    /\ twinRan = FALSE

\* main() around resolve_*_conflict, from the content that is written
\* (resolved) and whether the report can be printed on stdout: a print that
\* raises is caught by `except Exception` and ends the run with exit code 1.
main(resolved, stdout_ok) ==
    /\ runs < MaxRuns
    /\ runs' = runs + 1
    /\ before' = file
    /\ IF ~env.exists
       THEN /\ file' = file /\ writes' = 0 /\ exit' = 1 /\ raised' = FALSE
       ELSE IF ~has_conflict_markers(file)
       THEN /\ file' = file /\ writes' = 0
            /\ raised' = ~stdout_ok
            /\ exit' = IF stdout_ok THEN 0 ELSE 1
       ELSE /\ file' = resolved /\ writes' = 1
            /\ raised' = ~stdout_ok
            /\ exit' = IF stdout_ok THEN 0 ELSE 1
    /\ UNCHANGED <<tool, env, twin, twinRan>>

\* python resolve_cargo_conflict.py <path>
resolve_cargo_conflict ==
    /\ tool = "cargo"
    /\ \E stdout_ok \in BOOLEAN : main(cargo_resolved(file), stdout_ok)

\* python resolve_librs_conflict.py <path>
resolve_librs_conflict ==
    /\ tool = "librs"
    /\ \E stdout_ok \in BOOLEAN :
         \E mods \in sorted_mods(librs_scan(file).all_pub_mods) :
            main(librs_resolved(file, mods), stdout_ok)

\* The same resolver run by another process on the copy of the input.
twin_run ==
    /\ ~twinRan
    /\ env.exists
    /\ twinRan' = TRUE
    /\ \/ /\ tool = "cargo"
          /\ twin' = IF has_conflict_markers(twin) THEN cargo_resolved(twin) ELSE twin
       \/ /\ tool = "librs"
          /\ \E mods \in sorted_mods(librs_scan(twin).all_pub_mods) :
               twin' = IF has_conflict_markers(twin) THEN librs_resolved(twin, mods) ELSE twin
    /\ UNCHANGED <<tool, env, file, before, runs, exit, raised, writes>>

Next == resolve_cargo_conflict \/ resolve_librs_conflict

Spec == Init /\ [][Next]_vars

\* Two processes, each run once on its own copy of the same input.
NextTwin == (resolve_cargo_conflict /\ runs = 0) \/ (resolve_librs_conflict /\ runs = 0) \/ twin_run

SpecTwin == Init /\ [][NextTwin]_vars

\* ------------------------------------------- the vocabulary of the claims

\* The lines of a document.
LinesOf(d) == split_lines(d, << >>)

IsStartLine(l) == l # << >> /\ l[1] = "START"

IsSepLine(l) == l # << >> /\ l[1] = "SEP"

IsEndLine(l) == l # << >> /\ l[1] = "END"

IsMarkerLine(l) == IsStartLine(l) \/ IsSepLine(l) \/ IsEndLine(l)

\* A line of the list construct: of a `members = [...]` literal, or a
\* `pub mod` declaration.
IsConstructLine(l) ==
    \/ \E i \in 1..Len(l) : l[i] \in {"MOPEN", "CLOSE"} \cup Quoted
    \/ starts_with_pub_mod(strip(l))

\* A line that is one whole declaration once trimmed.
IsDeclLine(l) == Len(strip(l)) = 1 /\ strip(l)[1] \in PubMods

RECURSIVE Place(_, _, _)
\* Where each line of ls lies, by the three-state scan of the conflict
\* regions: "out" (outside every region), "start", "ours", "sep", "theirs",
\* "end".  A separator or end marker line met outside a region is an outside
\* line.  at is the place of the line before.
Place(ls, i, at) ==
    IF i > Len(ls) THEN << >>
    ELSE LET inside == at \in {"start", "ours", "sep", "theirs"}
             here == IF ~inside
                     THEN (IF IsStartLine(ls[i]) THEN "start" ELSE "out")
                     ELSE IF IsEndLine(ls[i]) THEN "end"
                     ELSE IF IsSepLine(ls[i]) /\ at \in {"start", "ours"} THEN "sep"
                     ELSE IF at \in {"start", "ours"} THEN "ours"
                     ELSE "theirs"
         IN  <<here>> \o Place(ls, i + 1, here)

Places(d) == Place(LinesOf(d), 1, "out")

\* Every start marker of the document begins a line.
StartsBeginLines(d) == \A i \in 1..Len(d) : d[i] = "START" => (i = 1 \/ d[i - 1] = "NL")

\* The conflict regions are well formed: every marker line is the start, the
\* one optional separator or the end of a region, regions are closed and
\* not nested.
WellFormed(d) ==
    LET ls == LinesOf(d)
        pl == Places(d)
    IN  /\ \A i \in 1..Len(ls) :
              /\ pl[i] = "out" => ~IsMarkerLine(ls[i])
              /\ pl[i] \in {"ours", "theirs"} => ~IsMarkerLine(ls[i])
        /\ pl[Len(pl)] \in {"out", "end"}
        /\ StartsBeginLines(d)

\* Every members list of the document is closed on the line that opens it.
ListsClosed(d) ==
    \A i \in 1..Len(d) :
        d[i] = "MOPEN" =>
            LET c == FirstIdx(d, i + 1, {"CLOSE", "NL"}) IN c # 0 /\ d[c] = "CLOSE"

\* Every region of the document has its separator line.
RegionsHaveSeparator(d) ==
    LET pl == Places(d)
    IN  \A i \in 1..Len(pl) : pl[i] = "end" => \E j \in 1..i : pl[j] = "sep" /\ \A k \in j..i : pl[k] # "start"

HasStartLine(d) == \E i \in 1..Len(LinesOf(d)) : IsStartLine(LinesOf(d)[i])

\* A run that resolved: it read a document with markers and wrote the result.
Resolved == runs >= 1 /\ writes = 1

\* --------------------------------------------------------------- claims

\* C1: for both resolvers, when no line of the document begins with the start
\* marker `<<<<<<< `, the run is a no-op: the file is not written, its content
\* stays the same, and the run returns success (exit 0).  Stated for the runs
\* whose report could be printed.
C1_NoStartLineIsNoOp ==
    (runs >= 1 /\ env.exists /\ ~raised /\ ~HasStartLine(before))
        => (writes = 0 /\ file = before /\ exit = 0)

\* C2: idempotence: running a resolver twice in sequence leaves the file with
\* the content it had after the first run.
C2_SecondRunChangesNothing ==
    (runs = 2 /\ env.exists) => file = before

RECURSIVE ListEntriesFrom(_, _, _)
\* The quoted entries that stand inside a `members = [ ... ]` literal of the
\* lexemes i.. of d; open says whether a literal is open at i.
ListEntriesFrom(d, i, open) ==
    IF i > Len(d) THEN {}
    ELSE IF d[i] = "MOPEN" THEN ListEntriesFrom(d, i + 1, TRUE)
    ELSE IF d[i] \in HasClose THEN ListEntriesFrom(d, i + 1, FALSE)
    ELSE (IF open /\ d[i] \in Quoted THEN {d[i]} ELSE {})
            \cup ListEntriesFrom(d, i + 1, open)

\* The entries of the members lists of a document.
ListEntries(d) == ListEntriesFrom(d, 1, FALSE)

\* The entries of the members lists found on a side of a conflict region.
SideEntries(d) ==
    LET ls == LinesOf(d)
        pl == Places(d)
    IN  UNION {ListEntries(ls[i]) : i \in {j \in 1..Len(ls) : pl[j] \in {"ours", "theirs"}}}

\* C3: completeness of the manifest resolver: every quoted entry of a members
\* list found on either side of any conflict region is an entry of the
\* members list of the file that resolve_cargo_conflict writes, whatever else
\* the document contains.
C3_CargoKeepsEverySideEntry ==
    (tool = "cargo" /\ Resolved) => SideEntries(before) \subseteq ListEntries(file)

\* C4: completeness of the declaration resolver: when the conflict regions
\* of the document are well formed, every line of a side of a region that,
\* trimmed, is one declaration `pub mod x;` or `pub(q) mod x;` is, with the
\* same trimmed text, a line of the file resolve_librs_conflict writes.
C4_LibrsKeepsEveryRegionDeclaration ==
    (tool = "librs" /\ Resolved /\ WellFormed(before)) =>
        LET ls == LinesOf(before)
            pl == Places(before)
            out == LinesOf(file)
        IN  \A i \in 1..Len(ls) :
                (pl[i] \in {"ours", "theirs"} /\ IsDeclLine(ls[i]))
                    => \E j \in 1..Len(out) : out[j] = strip(ls[i])

\* A well-formed lib.rs with different declarations on the two sides of a
\* region, one of them indented in the input, all written out.
C4_Witness ==
    /\ tool = "librs" /\ Resolved /\ WellFormed(before)
    /\ LET ls == LinesOf(before)
           pl == Places(before)
           out == LinesOf(file)
       IN  /\ \E i, j \in 1..Len(ls) :
                /\ pl[i] = "ours" /\ pl[j] = "theirs"
                /\ IsDeclLine(ls[i]) /\ IsDeclLine(ls[j]) /\ strip(ls[i]) # strip(ls[j])
           /\ \E i \in 1..Len(ls) :
                /\ pl[i] = "ours" /\ IsDeclLine(ls[i]) /\ ls[i] # strip(ls[i])
                /\ \E j \in 1..Len(out) : out[j] = strip(ls[i])

RECURSIVE NoRepeatInLists(_, _, _)
\* No quoted entry stands twice inside one `members = [ ... ]` literal of the
\* lexemes i.. of d; seen holds the entries of the literal open at i.
NoRepeatInLists(d, i, seen) ==
    IF i > Len(d) THEN TRUE
    ELSE IF d[i] = "MOPEN" THEN NoRepeatInLists(d, i + 1, {})
    ELSE IF d[i] \in Quoted
    THEN d[i] \notin seen /\ NoRepeatInLists(d, i + 1, seen \cup {d[i]})
    ELSE NoRepeatInLists(d, i + 1, seen)

\* No declaration line stands twice in the document.
NoDeclarationTwice(d) ==
    LET ls == LinesOf(d)
    IN  \A i, j \in 1..Len(ls) :
            (i < j /\ starts_with_pub_mod(strip(ls[i]))) => strip(ls[i]) # strip(ls[j])

\* C5: uniqueness: in the output of either resolver no entry occurs twice in
\* the merged construct: no member string is repeated inside an emitted
\* members list, and no declaration line is emitted more than once.
C5_NoEntryTwice ==
    Resolved =>
        /\ tool = "cargo" => NoRepeatInLists(file, 1, {})
        /\ tool = "librs" => NoDeclarationTwice(file)

\* One entry extracted from both sides of a region, or from a region and from
\* the text outside it, and emitted.
C5_Witness ==
    /\ Resolved
    /\ \/ /\ tool = "cargo"
          /\ Cardinality({i \in 1..Len(before) : before[i] = "Qa"}) >= 2
          /\ "Qa" \in SideEntries(before)
          /\ "Qa" \in ListEntries(file)
       \/ /\ tool = "librs"
          /\ Cardinality({i \in 1..Len(before) : before[i] = "PMb"}) >= 3
          /\ \E j \in 1..Len(LinesOf(file)) : LinesOf(file)[j] = <<"PMb">>

\* C6: determinism: two runs of the same resolver on the same input, by two
\* processes, write the same output, the order of the entries included.
C6_TwoRunsSameOutput ==
    (runs = 1 /\ twinRan /\ env.exists) => file = twin

\* C7: marker elimination: a file that a resolver rewrote has no line that
\* begins with a start marker, a separator or an end marker.
C7_NoMarkerLineWritten ==
    Resolved => \A i \in 1..Len(LinesOf(file)) : ~IsMarkerLine(LinesOf(file)[i])

RECURSIVE IsSubsequence(_, _)
\* The elements of a occur in b, in the order of a.
IsSubsequence(a, b) ==
    IF a = << >> THEN TRUE
    ELSE IF b = << >> THEN FALSE
    ELSE IF Head(a) = Head(b) THEN IsSubsequence(Tail(a), Tail(b))
    ELSE IsSubsequence(a, Tail(b))

\* A line with text that is no part of the list construct.
IsPlainLine(l) == l # << >> /\ ~IsConstructLine(l)

RECURSIVE OutsideLines(_, _, _)
\* The plain lines of ls that lie outside every conflict region, in order.
OutsideLines(ls, pl, i) ==
    IF i > Len(ls) THEN << >>
    ELSE (IF pl[i] = "out" /\ IsPlainLine(ls[i]) THEN <<ls[i]>> ELSE << >>)
            \o OutsideLines(ls, pl, i + 1)

\* C8: preservation: every line of the input outside all conflict regions
\* and outside the list construct is a line of the output, unmodified, and
\* these lines keep their order.  Blank lines, which the rewrite normalises,
\* are not counted.  Stated for the documents whose start markers all begin
\* a line and whose members lists are all closed.
C8_OutsideLinesPreserved ==
    (Resolved /\ StartsBeginLines(before) /\ ListsClosed(before)) => IsSubsequence(OutsideLines(LinesOf(before), Places(before), 1), LinesOf(file))

\* Line i of a well-formed document lies in a region neither side of which
\* holds a list entry.
InGenericRegion(ls, pl, i) ==
    LET s == CHOOSE j \in 1..i : pl[j] = "start" /\ \A k \in (j + 1)..i : pl[k] # "start"
        e == CHOOSE j \in i..Len(ls) : pl[j] = "end" /\ \A k \in i..(j - 1) : pl[k] # "end"
    IN  \A j \in s..e : ~IsConstructLine(ls[j])

RECURSIVE GenericSide(_, _, _, _)
\* The plain lines on the given side of the regions without list entries of
\* a well-formed document, in order.
GenericSide(ls, pl, side, i) ==
    IF i > Len(ls) THEN << >>
    ELSE (IF pl[i] = side /\ IsPlainLine(ls[i]) /\ InGenericRegion(ls, pl, i)
          THEN <<ls[i]>> ELSE << >>)
            \o GenericSide(ls, pl, side, i + 1)

\* C9: generic fallback: every region in which neither side holds a list
\* entry is resolved to its "ours" text, verbatim and in order, while its
\* "theirs" text and its marker lines are discarded.  Stated for the
\* well-formed documents whose regions all have a separator line and whose
\* members lists are all closed.
C9_GenericRegionKeepsOurs ==
    (Resolved /\ WellFormed(before) /\ RegionsHaveSeparator(before) /\ ListsClosed(before)) =>
        LET ls == LinesOf(before)
            pl == Places(before)
            out == LinesOf(file)
        IN  /\ IsSubsequence(GenericSide(ls, pl, "ours", 1), out)
            /\ \A i \in 1..Len(out) :
                  /\ out[i] \notin Range(GenericSide(ls, pl, "theirs", 1))
                  /\ ~IsMarkerLine(out[i])

\* C10: a run that ends in failure (exit code 1) has not written the target
\* path, and the content of the file is unchanged.
C10_FailureLeavesFileUntouched ==
    (runs >= 1 /\ exit = 1) => (writes = 0 /\ file = before)

\* How many times the lexeme x stands in d.
CountOf(d, x) == Cardinality({i \in 1..Len(d) : d[i] = x})

RECURSIVE QuotedIn(_)
\* The quoted strings of d, in the order of the text.
QuotedIn(d) ==
    IF d = << >> THEN << >>
    ELSE (IF Head(d) \in Quoted THEN <<Head(d)>> ELSE << >>) \o QuotedIn(Tail(d))

\* The document of scenario A: one `[workspace]` header line, after it one
\* conflict region both sides of which hold a closed members list, and no
\* members list outside the region.
ScenarioA(d) ==
    LET ls == LinesOf(d)
        pl == Places(d)
    IN  /\ WellFormed(d) /\ ListsClosed(d)
        /\ CountOf(d, "WSHDR") = 1 /\ CountOf(d, "START") = 1
        /\ \E h, s \in 1..Len(ls) :
              h < s /\ ls[h] = <<"WSHDR">> /\ pl[h] = "out" /\ pl[s] = "start"
        /\ \E i \in 1..Len(ls) : pl[i] = "ours" /\ "MOPEN" \in Range(ls[i])
        /\ \E i \in 1..Len(ls) : pl[i] = "theirs" /\ "MOPEN" \in Range(ls[i])
        /\ \A i \in 1..Len(ls) : pl[i] = "out" => "MOPEN" \notin Range(ls[i])

\* C11: scenario A: for a `[workspace]` header followed by one region whose
\* two sides each hold a members list, with no members list outside the
\* region, the output of resolve_cargo_conflict has exactly one members list,
\* which holds the sorted union of the entries of both sides without repeats
\* and starts on the line right after the header, and no marker line.
C11_ScenarioAOneSortedListAfterHeader ==
    (tool = "cargo" /\ Resolved /\ ScenarioA(before)) =>
        /\ CountOf(file, "MOPEN") = 1
        /\ ListEntries(file) = SideEntries(before)
        /\ \A i, j \in 1..Len(QuotedIn(file)) :
              i < j => Rank(QuotedIn(file)[i]) < Rank(QuotedIn(file)[j])
        /\ \E i \in 1..(Len(file) - 2) :
              file[i] = "WSHDR" /\ file[i + 1] = "NL" /\ file[i + 2] = "MOPEN"
        /\ \A i \in 1..Len(LinesOf(file)) : ~IsMarkerLine(LinesOf(file)[i])

\* A line that, trimmed, begins with a declaration.
IsDeclStartLine(l) == starts_with_pub_mod(strip(l))

\* A line that, trimmed, begins with `use `.
IsUseLine(l) == strip(l) # << >> /\ strip(l)[1] = "USE"

RECURSIVE NonBlank(_)
\* The lines of ls that are not empty, in order.
NonBlank(ls) ==
    IF ls = << >> THEN << >>
    ELSE (IF Head(ls) # << >> THEN <<Head(ls)>> ELSE << >>) \o NonBlank(Tail(ls))

RECURSIVE KeptBefore(_, _, _, _)
\* The lines i..(k - 1) of ls that lie outside every region and are neither
\* marker lines nor declaration lines, in order.
KeptBefore(ls, pl, i, k) ==
    IF i >= k THEN << >>
    ELSE (IF pl[i] = "out" /\ ~IsMarkerLine(ls[i]) /\ ~IsDeclStartLine(ls[i])
          THEN <<ls[i]>> ELSE << >>)
            \o KeptBefore(ls, pl, i + 1, k)

\* The index of the first declaration line of ls; 0 when there is none.
FirstDeclLine(ls) ==
    IF \E i \in 1..Len(ls) : IsDeclStartLine(ls[i])
    THEN CHOOSE i \in 1..Len(ls) :
            IsDeclStartLine(ls[i]) /\ \A j \in 1..(i - 1) : ~IsDeclStartLine(ls[j])
    ELSE 0

\* C12: insertion point of the declaration resolver, for a well-formed
\* document with at least one declaration: the merged declarations stand where
\* the first declaration outside the conflict regions stood, if there is one;
\* otherwise right after the last `use` line; otherwise at the start of the
\* document, blank lines apart.
C12_InsertionPointByPriority ==
    (tool = "librs" /\ Resolved /\ WellFormed(before)
        /\ \E i \in 1..Len(LinesOf(before)) :
              Places(before)[i] \in {"ours", "theirs", "out"} /\ IsDeclStartLine(LinesOf(before)[i])) =>
        LET ls == LinesOf(before)
            pl == Places(before)
            out == LinesOf(file)
            f == FirstDeclLine(out)
            outside == {i \in 1..Len(ls) : pl[i] = "out" /\ IsDeclStartLine(ls[i])}
            uses == {i \in 1..Len(ls) : pl[i] = "out" /\ IsUseLine(ls[i])}
        IN  /\ f # 0
            /\ IF outside # {}
               THEN LET k == CHOOSE i \in outside : \A j \in outside : i <= j
                    IN  NonBlank(Sub(out, 1, f - 1)) = NonBlank(KeptBefore(ls, pl, 1, k))
               ELSE IF uses # {}
               THEN /\ f > 1 /\ IsUseLine(out[f - 1])
                    /\ \A j \in f..Len(out) : ~IsUseLine(out[j])
               ELSE NonBlank(Sub(out, 1, f - 1)) = << >>

\* C13: trailing newline: every file a resolver writes ends with exactly one
\* newline character, not zero and not two or more.
C13_ExactlyOneTrailingNewline ==
    Resolved =>
        /\ file # << >>
        /\ file[Len(file)] = "NL"
        /\ Len(file) >= 2 => file[Len(file) - 1] # "NL"

\* A line that yields a list entry: a members list with a quoted entry, or a
\* declaration.
YieldsEntry(l) == ListEntries(l) # {} \/ IsDeclStartLine(l)

\* Line i of a well-formed document lies in a region at least one side of
\* which yields a list entry.
InListRegion(ls, pl, i) ==
    /\ pl[i] \in {"start", "ours", "sep", "theirs", "end"}
    /\ LET s == CHOOSE j \in 1..i : pl[j] = "start" /\ \A k \in (j + 1)..i : pl[k] # "start"
           e == CHOOSE j \in i..Len(ls) : pl[j] = "end" /\ \A k \in i..(j - 1) : pl[k] # "end"
       IN  \E j \in s..e : YieldsEntry(ls[j])

\* C14: full removal of list conflicts: of a region at least one side of which
\* yields a list entry nothing but the merged construct reaches the output:
\* no marker line, and no line of non-entry text of either side (such a line
\* is counted when its text stands nowhere else in the document).  Stated for
\* the well-formed documents whose regions all have a separator line and
\* whose members lists are all closed.
C14_ListRegionRemovedInFull ==
    (Resolved /\ WellFormed(before) /\ RegionsHaveSeparator(before) /\ ListsClosed(before)) =>
        LET ls == LinesOf(before)
            pl == Places(before)
            out == LinesOf(file)
        IN  /\ \A i \in 1..Len(ls) :
                  (/\ pl[i] \in {"ours", "theirs"} /\ IsPlainLine(ls[i]) /\ InListRegion(ls, pl, i)
                   /\ \A j \in 1..Len(ls) :
                         ls[j] = ls[i] => (pl[j] \in {"ours", "theirs"} /\ InListRegion(ls, pl, j)))
                    => \A k \in 1..Len(out) : out[k] # ls[i]
            /\ (\E i \in 1..Len(ls) : InListRegion(ls, pl, i))
                  => \A k \in 1..Len(out) : ~IsMarkerLine(out[k])

RECURSIVE conflict_sides(_, _)
\* Lines 71-76: the text blocks given to extract_members_from_block, the two
\* sides of every match of conflict_pattern, scanning from index i.
conflict_sides(s, i) ==
    IF i > Len(s) THEN {}
    ELSE LET m == conflict_pattern(s, i)
         IN  IF m.ok THEN {m.ours, m.theirs} \cup conflict_sides(s, m.last + 1)
             ELSE conflict_sides(s, i + 1)

\* Lines 71-81: every text block a run extracts members from: the sides of
\* the regions and the non-conflicting remainder.
extracted_blocks(content) == conflict_sides(content, 1) \cup {clean_content(content, 1)}

RECURSIVE LiteralEntries(_, _)
\* The quoted entries of all the `members = [ ... ]` literals of the lexemes
\* i.. of a block; a literal that is never closed has none.
LiteralEntries(b, i) ==
    IF i > Len(b) THEN {}
    ELSE LET c == IF b[i] = "MOPEN" THEN FirstIdx(b, i + 1, HasClose) ELSE 0
         IN  IF c # 0 THEN quoted_strings(Sub(b, i + 1, c - 1)) \cup LiteralEntries(b, c + 1)
             ELSE LiteralEntries(b, i + 1)

\* C15: extraction over one text block (a side of a region, or the
\* non-conflicting remainder): the entries of all the members literals of the
\* block are returned, not only those of the first, and a literal with no
\* closing bracket contributes none.
C15_AllLiteralsOfABlockExtracted ==
    (tool = "cargo" /\ Resolved) =>
        \A b \in extracted_blocks(before) : extract_members_from_block(b) = LiteralEntries(b, 1)

\* C16: declaration extraction takes only whole lines: every entry the
\* declaration resolver collects, inside a region or outside, is the trimmed
\* text of a line that is, as a whole, one declaration; a line with more text
\* after the terminator yields no entry.
C16_OnlyWholeLineDeclarations ==
    (tool = "librs" /\ Resolved) =>
        \A m \in librs_scan(before).all_pub_mods :
            \E i \in 1..Len(LinesOf(before)) :
                IsDeclLine(LinesOf(before)[i]) /\ strip(LinesOf(before)[i]) = m

\* The place of the module identifier of a declaration line in the order of
\* the identifiers: `a` before `b`.
ModuleRank(l) ==
    CASE strip(l)[1] \in {"PMa", "PCa"} -> 1
      [] strip(l)[1] = "PMb" -> 2
      [] OTHER -> 3

\* How many lines of ls are the line l.
TimesLine(ls, l) == Cardinality({k \in 1..Len(ls) : ls[k] = l})

\* C17: merge order of the declaration resolver: the declaration lines of the
\* output are in non-decreasing order of their module identifier; every
\* collected entry is a line of the output exactly once, so two declarations
\* of one identifier with different text are both there and two with the
\* same text are there once.
C17_DeclarationsOrderedByName ==
    (tool = "librs" /\ Resolved) =>
        LET out == LinesOf(file)
        IN  /\ \A i, j \in 1..Len(out) :
                  (i < j /\ IsDeclStartLine(out[i]) /\ IsDeclStartLine(out[j]))
                      => ModuleRank(out[i]) <= ModuleRank(out[j])
            /\ \A m \in librs_scan(before).all_pub_mods : TimesLine(out, m) = 1
            /\ WellFormed(before) =>
                  \A i \in 1..Len(LinesOf(before)) :
                      (Places(before)[i] \in {"ours", "theirs", "out"} /\ IsDeclLine(LinesOf(before)[i]))
                          => TimesLine(out, strip(LinesOf(before)[i])) = 1

\* `pub mod a;` and `pub(crate) mod a;` both written, before `pub mod b;`,
\* which stood on several lines of the input.
C17_Witness ==
    /\ tool = "librs" /\ Resolved /\ WellFormed(before)
    /\ CountOf(before, "PMb") >= 2
    /\ \A m \in {<<"PMa">>, <<"PCa">>, <<"PMb">>} : TimesLine(LinesOf(file), m) = 1

\* C18: blank-line normalisation: no run of three or more blank lines is left
\* in the output, and a run of three or more blank lines at the start of the
\* document, where each newline is a blank line, has become a single blank
\* line as a run in the middle or at the end has.
C18_BlankRunsCollapsedToOne ==
    Resolved =>
        /\ \A i \in 1..(Len(file) - 2) : ~(file[i] = "NL" /\ file[i + 1] = "NL" /\ file[i + 2] = "NL")
        /\ (Len(before) >= 3 /\ before[1] = "NL" /\ before[2] = "NL" /\ before[3] = "NL")
              => (/\ file # << >> /\ file[1] = "NL"
                  /\ Len(file) >= 2 => file[2] # "NL")

\* C19: empty-union policy: when the document has markers (for the manifest
\* resolver: a `[workspace]` header and well-formed regions with a separator
\* line) and no entry at all,
\* the file resolve_cargo_conflict writes holds the explicit empty list
\* `members = []`, and the file resolve_librs_conflict writes holds no
\* declaration line.
C19_EmptyUnionPolicy ==
    /\ (tool = "cargo" /\ Resolved /\ WellFormed(before) /\ RegionsHaveSeparator(before)
            /\ "WSHDR" \in Range(before) /\ all_members(before) = {}
            /\ \A i \in 1..Len(before) : before[i] \notin Quoted)
          => \E i \in 1..(Len(file) - 1) : file[i] = "MOPEN" /\ file[i + 1] = "CLOSE"
    /\ (tool = "librs" /\ Resolved /\ librs_scan(before).all_pub_mods = {})
          => \A i \in 1..Len(LinesOf(file)) : ~IsDeclStartLine(LinesOf(file)[i])

\* The lines of the input at which the scan fixes the insertion index: an
\* end marker line, or a declaration line outside every region.
FixesInsertion(ls, pl, i) == IsEndLine(ls[i]) \/ (pl[i] = "out" /\ IsDeclStartLine(ls[i]))

RECURSIVE SwapFrom(_, _, _)
\* The lines i.. of a well-formed document whose regions all have a separator
\* line, with the "ours" and the "theirs" lines of every region exchanged.
SwapFrom(ls, pl, i) ==
    IF i > Len(ls) THEN << >>
    ELSE IF pl[i] = "start"
    THEN LET j == CHOOSE k \in (i + 1)..Len(ls) :
                    pl[k] = "sep" /\ \A m \in (i + 1)..(k - 1) : pl[m] # "sep"
             e == CHOOSE k \in (i + 1)..Len(ls) :
                    pl[k] = "end" /\ \A m \in (i + 1)..(k - 1) : pl[m] # "end"
         IN  <<ls[i]>> \o Sub(ls, j + 1, e - 1) \o <<ls[j]>> \o Sub(ls, i + 1, j - 1)
                \o <<ls[e]>> \o SwapFrom(ls, pl, e + 1)
    ELSE <<ls[i]>> \o SwapFrom(ls, pl, i + 1)

\* The document with the two sides of every region exchanged; a document
\* that is not well formed, or has a region without separator, is left as
\* it is.
SwapSides(d) ==
    IF WellFormed(d) /\ RegionsHaveSeparator(d)
    THEN join_lines(SwapFrom(LinesOf(d), Places(d), 1))
    ELSE d

\* Two processes: one is given the document, the other the document with the
\* sides of every region exchanged.
InitSwap ==
    /\ tool \in Tools
    /\ \E present \in BOOLEAN :
         /\ env = [exists |-> present]
         /\ file \in (IF present THEN Inputs(tool) ELSE {<< >>})
    /\ before = file
    /\ twin = SwapSides(file)
    /\ runs = 0
    /\ exit = -1
    /\ raised = FALSE
    /\ writes = 0
    /\ twinRan = FALSE

SpecSwap == InitSwap /\ [][NextTwin]_vars

RECURSIVE ListLiterals(_, _)
\* The members literals of the lexemes i.. of d that are closed, each as the
\* sequence of its quoted entries, in the order of the text.
ListLiterals(d, i) ==
    IF i > Len(d) THEN << >>
    ELSE LET c == IF d[i] = "MOPEN" THEN FirstIdx(d, i + 1, HasClose) ELSE 0
         IN  IF c # 0 THEN <<QuotedIn(Sub(d, i + 1, c - 1))>> \o ListLiterals(d, c + 1)
             ELSE ListLiterals(d, i + 1)

\* The declaration lines of a document, as a set.
DeclLines(d) == {LinesOf(d)[i] : i \in {j \in 1..Len(LinesOf(d)) : IsDeclStartLine(LinesOf(d)[j])}}

\* C21: the merge does not depend on the side an entry came from: for a
\* well-formed document (regions with a separator line, members lists
\* closed), the run on the document and the run on the document with the
\* sides of every region exchanged collect the same set of entries and write
\* the same merged construct: the same members lists, the same declaration
\* lines.
C21_SwappingSidesSameMerge ==
    (runs = 1 /\ writes = 1 /\ twinRan /\ SwapSides(before) # before /\ ListsClosed(before)) =>
        /\ tool = "cargo" =>
              /\ all_members(SwapSides(before)) = all_members(before)
              /\ ListLiterals(twin, 1) = ListLiterals(file, 1)
        /\ tool = "librs" =>
              /\ librs_scan(SwapSides(before)).all_pub_mods = librs_scan(before).all_pub_mods
              /\ DeclLines(twin) = DeclLines(file)
====
